---- MODULE Spec2Model ----
(***************************************************************************)
(* Transaction core of modelserver-node: InternalModelServerClient (the    *)
(* transaction manager) and DefaultTransactionContext (one Upstream socket, *)
(* a stack of nested edit contexts, command providers, triggers).          *)
(*                                                                         *)
(* One asynchronous call chain runs per context (the activations of the    *)
(* pending async functions, outermost first); every action runs the        *)
(* JavaScript up to the next await of something external: a provider, the  *)
(* plug-in's transaction function, Upstream's UUID or reply.               *)
(***************************************************************************)
EXTENDS Integers, Sequences, FiniteSets, TLC

VARIABLES
    transactions,   \* InternalModelServerClient.transactions: uriKey -> context (0: no entry)
    posts,          \* POSTs to Upstream's transaction endpoint that have not returned yet
    ctxs,           \* the DefaultTransactionContexts constructed so far
    steps,          \* calls made so far by clients, transaction functions and triggers
    nextOp,         \* next fresh operation id Upstream puts in a reply
    mA0, mR1, mR2, mAgg, mStage, \* the merge of two results into one aggregate
    routers,        \* ModelServer.serve: routes.routers, the plug-in routers made by the factory
    installed,      \* routes.install() has run and the catch-all handlers are in place
    backstopPaths,  \* ModelServer.backstopPaths
    lastRequest,    \* history: the last request that reached the catch-all handler, and its fate
    bridge          \* forwardWS: the downstream and upstream sockets of one bridged upgrade

vars == <<transactions, posts, ctxs, steps, nextOp, mA0, mR1, mR2, mAgg, mStage,
          routers, installed, backstopPaths, lastRequest, bridge>>

mainVars == <<transactions, posts, ctxs, steps, nextOp>>
mergeVars == <<mA0, mR1, mR2, mAgg, mStage>>
gatewayVars == <<routers, installed, backstopPaths, lastRequest, bridge>>

----------------------------------------------------------------------------
(* Bounds *)

MaxCtx == 1        \* contexts ever constructed
MaxRoots == 2      \* the same, where only the manager and the sockets act
MaxCalls == 4      \* calls made by clients, transaction functions and trigger rounds
MaxNest == 1       \* transaction functions active at once in one chain
MaxReplyOps == 1   \* operations in one reply of Upstream
MaxLen == 2        \* operations in one merged patch (merge specification)
MaxRouters == 2    \* plug-in routers made by the factory
MaxLayers == 2     \* layers (routes and middlewares) in the stacks of all routers
MaxFrames == 2     \* frames received on each side of a bridged WebSocket

----------------------------------------------------------------------------
(* Data *)

Range(s) == {s[i] : i \in 1..Len(s)}

Front(s) == SubSeq(s, 1, Len(s) - 1)

Last(s) == s[Len(s)]

\* URIs as clients spell them; both name the same model.
RawUris == {"file:/m1", "FILE:/m1"}

\* URI.normalize() (urijs): lower-cases the scheme, in place.
Normalize(u) == IF u = "FILE:/m1" THEN "file:/m1" ELSE u

UriKeys == {Normalize(u) : u \in RawUris}

\* Command types; "custom" has a command provider.
CmdTypes == {"plain", "custom"}

hasProvider(t) == t = "custom"

\* Patches a client, a provider or a trigger hands in (0: a client operation).
Patches == {<<>>, <<0>>}

\* ModelUpdateResult {success, patch?, patchModel?}; patchModel 0 is none.
\* allOk is history: the conjunction of the success of all results merged in.
MkResult(s, h, p, m) ==
    [success |-> s, hasPatch |-> h, patch |-> p, patchModel |-> m, allOk |-> s]

transactionClosed == MkResult(FALSE, FALSE, <<>>, 0)

\* The aggregate pushNestedContext starts a frame with: {success: true, patch: []}.
NewAggregate == MkResult(TRUE, TRUE, <<>>, 0)

MergeDropsFirst(dst, src) ==
    IF src.hasPatch /\ Len(src.patch) > 0
    THEN [dst EXCEPT !.success = dst.success /\ src.success,
                     !.hasPatch = TRUE,
                     !.patch = src.patch,
                     !.patchModel = IF (dst.success /\ src.success) /\ src.patchModel # 0
                                    THEN src.patchModel ELSE dst.patchModel]
    ELSE dst

mergeModelUpdateResult(dst, src) ==
    IF src.hasPatch /\ Len(src.patch) > 0
    THEN [dst EXCEPT !.success = dst.success /\ src.success,
                     !.hasPatch = TRUE,
                     !.patch = dst.patch \o src.patch,
                     !.patchModel = IF (dst.success /\ src.success) /\ src.patchModel # 0
                                    THEN src.patchModel ELSE dst.patchModel]
    ELSE dst

MergeIntoInFront(dst, src) ==
    [mergeModelUpdateResult(dst, src) EXCEPT
        !.allOk = dst.allOk /\ src.allOk,
        !.patch = IF src.hasPatch /\ Len(src.patch) > 0 THEN src.patch \o dst.patch
                  ELSE dst.patch]

\* The merge together with its history.
MergeInto(dst, src) ==
    [mergeModelUpdateResult(dst, src) EXCEPT !.allOk = dst.allOk /\ src.allOk]

----------------------------------------------------------------------------
(* DefaultTransactionContext *)

\* What a settled promise carries: resolved ("ok") with a value, or rejected
\* ("err"); flag is the boolean a transaction function returns.
Resolved(v) == [st |-> "ok", val |-> v, flag |-> TRUE]

Returned(b) == [st |-> "ok", val |-> transactionClosed, flag |-> b]

Rejected == [st |-> "err", val |-> transactionClosed, flag |-> FALSE]

\* One pending async function of the chain: k its kind, pc the await it is
\* suspended at, cur the frame captured as 'current', upd commit's
\* updateResult, body the execute message it is about to send.
NoBody == [kind |-> "", cmd |-> "", patch |-> <<>>]

CommandBody(t) == [kind |-> "modelserver.emfcommand", cmd |-> t, patch |-> <<>>]

PatchBody(p) == [kind |-> "modelserver.patch", cmd |-> "", patch |-> p]

Activation(k, pc) ==
    [k |-> k, pc |-> pc, cur |-> 0, upd |-> transactionClosed, body |-> NoBody]

\* message(type, data): what goes out on the socket.
message(type, body) == [type |-> type, body |-> body]

\* The state of a context after its constructor and open() have run
\* (the socket is connecting, the root frame is pushed).
NewContext(key) ==
    [uri |-> key,
     readyState |-> "CONNECTING",        \* of the WebSocket; this.socket is set while OPEN
     uuid |-> "pending",                 \* the CompletablePromise uuid
     opened |-> "pending",               \* the promise open() returned
     nestedContexts |-> <<NewAggregate>>,
     chain |-> <<>>,
     sent |-> <<>>,                      \* history: messages sent on the socket
     replied |-> <<>>,                   \* history: operations of Upstream's replies, in order
     replies |-> 0,                      \* history: replies to execute messages received
     children |-> 0,                     \* child proxies handed out and not yet committed
     closeCalls |-> 0,                   \* history: times closeCallback fired
     popEmpty |-> FALSE,                 \* history: a pop hit the empty stack
     discarded |-> {},                   \* history: operations of frames popped for a false return
     openedAt |-> <<>>,                  \* history: for each open child, Len(replied) and the
                                         \* depth of the stack when it was opened
     childOps |-> {},                    \* history: operations of the frames child commits popped
     ret |-> [op |-> "open", st |-> "pending", val |-> transactionClosed,
              afterRollback |-> FALSE, closeSent |-> FALSE, wasOpen |-> FALSE,
              sentAt |-> 0, repliedAt |-> 0, framesAt |-> 0, childrenAt |-> 0,
              patchAt |-> <<>>, emptyPatch |-> FALSE, triggerFalse |-> FALSE]]

isOpen(s) == s.readyState = "OPEN"

pushNestedContext(s) == [s EXCEPT !.nestedContexts = Append(@, NewAggregate)]

popWithoutMerge(s) ==
    IF s.nestedContexts = <<>>
    THEN [ok |-> FALSE, s |-> [s EXCEPT !.popEmpty = TRUE], result |-> transactionClosed]
    ELSE [ok |-> TRUE,
          s |-> [s EXCEPT !.nestedContexts = Front(@)],
          result |-> Last(s.nestedContexts)]

\* popNestedContext: ok is FALSE when the stack is empty (the destructuring of
\* undefined throws a TypeError).
popNestedContext(s) ==
    IF s.nestedContexts = <<>>
    THEN [ok |-> FALSE, s |-> [s EXCEPT !.popEmpty = TRUE], result |-> transactionClosed]
    ELSE LET result == Last(s.nestedContexts)
             rest == Front(s.nestedContexts)
         IN [ok |-> TRUE,
             s |-> [s EXCEPT !.nestedContexts =
                       IF rest = <<>> THEN rest
                       ELSE [rest EXCEPT ![Len(rest)] = MergeInto(@, result)]],
             result |-> result]

\* rollback(error): the synchronous part, up to its return.
rollback(s) ==
    IF isOpen(s)
    THEN [s EXCEPT !.sent = Append(@, message("roll-back", NoBody))]
    ELSE s

\* The callee of the innermost activation has settled with out: run the
\* continuations, outwards, up to the next await of something external.
RECURSIVE Settle(_, _)
Settle(s, out) ==
    IF s.chain = <<>>
    THEN [s EXCEPT !.ret.st = out.st, !.ret.val = out.val]
    ELSE
    LET a == Last(s.chain)
        s1 == [s EXCEPT !.chain = Front(@)]
    IN
    CASE a.k \in {"execute", "applyPatch"} ->
            \* autoRollback
            IF out.st = "ok" THEN Settle(s1, out) ELSE Settle(rollback(s1), Rejected)
      [] a.k = "doExecute" /\ a.pc = "send" ->
            Settle(s1, out)
      [] a.k = "doExecute" /\ a.pc = "fn" ->
            IF out.st = "err" THEN Settle(s1, Rejected)
            ELSE LET p == popNestedContext(s1) IN
                 IF ~p.ok THEN Settle(p.s, Rejected)
                 ELSE IF ~out.flag
                      THEN Settle([p.s EXCEPT !.discarded = @ \cup Range(p.result.patch)],
                                  Rejected)
                      ELSE Settle(p.s, Resolved(p.result))
      [] a.k = "fn" ->
            \* the transaction function goes on after its awaited edit
            [s EXCEPT !.chain[Len(s.chain)].pc = "run"]
      [] a.k = "performTriggers" ->
            LET p == popNestedContext(s1) IN
            IF ~p.ok \/ out.st = "err" THEN Settle(p.s, Rejected)
            ELSE Settle(p.s, Resolved(p.result))
      [] a.k = "commit" ->
            IF out.st = "err" THEN Settle(s1, Rejected)
            ELSE LET upd == MergeInto(a.upd, out.val) IN
                 IF out.val.hasPatch /\ Len(out.val.patch) > 0
                 THEN [s EXCEPT !.chain[Len(s.chain)] =
                                    [a EXCEPT !.pc = "getTriggers", !.upd = upd]]
                 ELSE IF s1.readyState = "OPEN"
                      THEN Settle([s1 EXCEPT !.sent = Append(@, message("close", NoBody)),
                                             !.ret.closeSent = TRUE],
                                  Resolved(upd))
                      ELSE Settle(s1, Rejected)
      [] OTHER -> s

SendNowNoAwait(s, body) ==
    IF s.nestedContexts = <<>>
    THEN Settle(s, Rejected)
    ELSE Settle([s EXCEPT !.sent = Append(@, message("execute", body))],
                Resolved(MkResult(TRUE, FALSE, <<>>, 0)))

\* sendExecuteMessage after the uuid has resolved: capture the current frame,
\* register the acceptor of the reply, send.
SendNow(s, body) ==
    IF s.nestedContexts = <<>>
    THEN Settle(s, Rejected)       \* destructuring of peekNestedContext() throws
    ELSE [s EXCEPT !.sent = Append(@, message("execute", body)),
                   !.chain = Append(@, [Activation("send", "reply") EXCEPT
                                           !.cur = Len(s.nestedContexts),
                                           !.body = body])]

sendExecuteMessage(s, body) ==
    IF ~isOpen(s) THEN Settle(s, Rejected)
    ELSE IF s.uuid = "rejected" THEN Settle(s, Rejected)
    ELSE IF s.uuid = "pending"
         THEN [s EXCEPT !.chain = Append(@, [Activation("send", "uuid") EXCEPT !.body = body])]
         ELSE SendNow(s, body)

applyPatchSendsEmpty(s, patch) ==
    IF ~isOpen(s) THEN Settle(s, Rejected)
    ELSE sendExecuteMessage([s EXCEPT !.chain = Append(@, Activation("applyPatch", "await"))],
                            PatchBody(patch))

applyPatch(s, patch) ==
    IF ~isOpen(s) THEN Settle(s, Rejected)
    ELSE IF patch = <<>> THEN Settle(s, Resolved(MkResult(FALSE, FALSE, <<>>, 0)))
    ELSE sendExecuteMessage([s EXCEPT !.chain = Append(@, Activation("applyPatch", "await"))],
                            PatchBody(patch))

executeUnchecked(s, cmd) ==
    LET s1 == [s EXCEPT !.chain = Append(@, Activation("execute", "await"))] IN
    IF ~hasProvider(cmd)
    THEN sendExecuteMessage(
             [s1 EXCEPT !.chain = Append(@, Activation("doExecute", "send"))],
             CommandBody(cmd))
    ELSE [s1 EXCEPT !.chain = Append(@, Activation("doExecute", "getCommands"))]

\* execute and doExecute up to the await of getCommands or of the reply.
execute(s, cmd) ==
    IF ~isOpen(s) THEN Settle(s, Rejected)
    ELSE LET s1 == [s EXCEPT !.chain = Append(@, Activation("execute", "await"))] IN
         IF ~hasProvider(cmd)
         THEN sendExecuteMessage(
                  [s1 EXCEPT !.chain = Append(@, Activation("doExecute", "send"))],
                  CommandBody(cmd))
         ELSE [s1 EXCEPT !.chain = Append(@, Activation("doExecute", "getCommands"))]

----------------------------------------------------------------------------
(* Initial values *)

MainIdle ==
    /\ transactions = [k \in UriKeys |-> 0]
    /\ posts = [k \in UriKeys |-> 0]
    /\ ctxs = <<>>
    /\ steps = 0
    /\ nextOp = 1

MergeIdle ==
    /\ mA0 = NewAggregate
    /\ mR1 = NewAggregate
    /\ mR2 = NewAggregate
    /\ mAgg = NewAggregate
    /\ mStage = 0

\* No request is the last request yet.
NoRequest == [path |-> <<>>, upgrade |-> FALSE, fate |-> "none"]

\* No upgrade request has been bridged yet.
NoBridge ==
    [downstream |-> "NONE", upstream |-> "NONE", closedFirst |-> "none",
     fromDown |-> <<>>, toUp |-> <<>>, fromUp |-> <<>>, toDown |-> <<>>]

\* ModelServer before serve(): no router, nothing installed, no socket.
GatewayIdle ==
    /\ routers = <<>>
    /\ installed = FALSE
    /\ backstopPaths = {}
    /\ lastRequest = NoRequest
    /\ bridge = NoBridge

----------------------------------------------------------------------------
(* Actions *)

Ctxs == 1..Len(ctxs)

Top(s) == Last(s.chain)

AtPc(s, k, pc) == s.chain # <<>> /\ Top(s).k = k /\ Top(s).pc = pc

\* Transaction functions active in the chain.
Nesting(s) == Cardinality({i \in 1..Len(s.chain) : s.chain[i].k = "fn"})

\* A caller holds the context: the root once open() resolved, or a child proxy.
HasRoot(s) == s.opened = "resolved"

HasHandle(s) == HasRoot(s) \/ s.children > 0

HasSent(s, type) == \E i \in 1..Len(s.sent) : s.sent[i].type = type

\* The record of the call a client starts now, with what the context was like
\* when it started.
Calling(s, op) ==
    [s EXCEPT !.ret = [op |-> op, st |-> "pending", val |-> transactionClosed,
                       afterRollback |-> HasSent(s, "roll-back"), closeSent |-> FALSE,
                       wasOpen |-> isOpen(s),
                       sentAt |-> Len(s.sent), repliedAt |-> Len(s.replied),
                       framesAt |-> Len(s.nestedContexts), childrenAt |-> s.children,
                       patchAt |-> IF s.nestedContexts = <<>> THEN <<>>
                                   ELSE Last(s.nestedContexts).patch,
                       emptyPatch |-> FALSE, triggerFalse |-> FALSE]]

\* InternalModelServerClient.openTransaction, no entry for the URI: POST.
openTransactionPost(u) ==
    /\ steps < MaxCalls
    /\ transactions[Normalize(u)] = 0
    /\ posts' = [posts EXCEPT ![Normalize(u)] = @ + 1]
    /\ steps' = steps + 1
    /\ UNCHANGED <<transactions, ctxs, nextOp, mergeVars, gatewayVars>>

\* InternalModelServerClient.openTransaction, entry present: the context's
\* openTransaction() pushes a frame and hands out a child proxy.
openTransactionNested(u) ==
    /\ steps < MaxCalls
    /\ transactions[Normalize(u)] # 0
    /\ LET c == transactions[Normalize(u)]
           s == ctxs[c]
       IN /\ s.chain = <<>> \/ AtPc(s, "fn", "run")
          /\ ctxs' = [ctxs EXCEPT ![c] =
                 LET s1 == [pushNestedContext(s) EXCEPT !.children = @ + 1,
                                                        !.openedAt = Append(@, [replied |-> Len(s.replied),
                                                                 depth |-> Len(s.nestedContexts)])]
                 IN
                 IF s.chain = <<>>
                 THEN [Calling(s1, "openTransaction") EXCEPT !.ret.st = "ok"]
                 ELSE s1]
    /\ steps' = steps + 1
    /\ UNCHANGED <<transactions, posts, nextOp, mergeVars, gatewayVars>>

\* The POST returns: construct the context, register it, open() it.
PostReturn(key) ==
    /\ posts[key] > 0
    /\ posts' = [posts EXCEPT ![key] = @ - 1]
    /\ ctxs' = Append(ctxs, NewContext(key))
    /\ transactions' = [transactions EXCEPT ![key] = Len(ctxs) + 1]
    /\ UNCHANGED <<steps, nextOp, mergeVars, gatewayVars>>

\* The POST fails: openTransaction rejects.
PostFail(key) ==
    /\ posts[key] > 0
    /\ posts' = [posts EXCEPT ![key] = @ - 1]
    /\ UNCHANGED <<transactions, ctxs, steps, nextOp, mergeVars, gatewayVars>>

\* socket.onopen
SocketOpen(c) ==
    /\ ctxs[c].readyState = "CONNECTING"
    /\ ctxs' = [ctxs EXCEPT ![c].readyState = "OPEN"]
    /\ UNCHANGED <<transactions, posts, steps, nextOp, mergeVars, gatewayVars>>

\* The first text message of Upstream: the uuid resolves, open() resolves,
\* and a sendExecuteMessage that awaited the uuid goes on.
UuidMessage(c) ==
    /\ ctxs[c].readyState = "OPEN"
    /\ ctxs[c].uuid = "pending"
    /\ LET s == ctxs[c]
           s1 == [s EXCEPT !.uuid = "resolved",
                           !.opened = IF @ = "pending" THEN "resolved" ELSE @,
                           !.ret.st = IF s.opened = "pending" /\ s.ret.op = "open"
                                      THEN "ok" ELSE @]
       IN ctxs' = [ctxs EXCEPT ![c] =
              IF AtPc(s, "send", "uuid")
              THEN SendNow([s1 EXCEPT !.chain = Front(@)], Top(s).body)
              ELSE s1]
    /\ UNCHANGED <<transactions, posts, steps, nextOp, mergeVars, gatewayVars>>

\* socket.onerror: rejects the promise of open()
SocketError(c) ==
    /\ ctxs[c].readyState # "CLOSED"
    /\ ctxs[c].opened = "pending"
    /\ ctxs' = [ctxs EXCEPT ![c].opened = "rejected",
                            ![c].ret.st = IF ctxs[c].ret.op = "open" THEN "err" ELSE @]
    /\ UNCHANGED <<transactions, posts, steps, nextOp, mergeVars, gatewayVars>>

closeTransactionAlways(map, key, c) ==
    [map EXCEPT ![key] = 0]

\* closeTransaction(modeluri, tc)
closeTransaction(map, key, c) ==
    IF map[key] = c THEN [map EXCEPT ![key] = 0] ELSE map

\* socket.onclose: closeCallback, then this.socket = undefined
SocketClose(c) ==
    /\ ctxs[c].readyState # "CLOSED"
    /\ transactions' = closeTransaction(transactions, ctxs[c].uri, c)
    /\ ctxs' = [ctxs EXCEPT ![c].readyState = "CLOSED", ![c].closeCalls = @ + 1]
    /\ UNCHANGED <<posts, steps, nextOp, mergeVars, gatewayVars>>

\* A client calls execute(modelUri, command) (or edit with a command).
Execute(c, t) ==
    /\ steps < MaxCalls
    /\ HasHandle(ctxs[c])
    /\ ctxs[c].chain = <<>>
    /\ ctxs' = [ctxs EXCEPT ![c] = execute(Calling(ctxs[c], "execute"), t)]
    /\ steps' = steps + 1
    /\ UNCHANGED <<transactions, posts, nextOp, mergeVars, gatewayVars>>

\* A client calls applyPatch(patch) (or edit with a patch).
ApplyPatch(c, patch) ==
    /\ steps < MaxCalls
    /\ HasHandle(ctxs[c])
    /\ ctxs[c].chain = <<>>
    /\ ctxs' = [ctxs EXCEPT ![c] =
           applyPatch([Calling(ctxs[c], "applyPatch") EXCEPT !.ret.emptyPatch = (patch = <<>>)],
                      patch)]
    /\ steps' = steps + 1
    /\ UNCHANGED <<transactions, posts, nextOp, mergeVars, gatewayVars>>

commitSkipsTriggers(s) ==
    LET p == popNestedContext(s) IN
    IF ~p.ok THEN Settle(p.s, Rejected)
    ELSE IF ~isOpen(p.s) THEN Settle(p.s, Resolved(transactionClosed))
    ELSE Settle([p.s EXCEPT !.sent = Append(@, message("close", NoBody)),
                            !.ret.closeSent = TRUE],
                Resolved(p.result))

\* commit() up to its first await.
commit(s) ==
    LET p == popNestedContext(s) IN
    IF ~p.ok THEN Settle(p.s, Rejected)
    ELSE IF ~isOpen(p.s) THEN Settle(p.s, Resolved(transactionClosed))
    ELSE IF p.result.hasPatch /\ Len(p.result.patch) > 0
         THEN [p.s EXCEPT !.chain = Append(@, [Activation("commit", "getTriggers")
                                                  EXCEPT !.upd = p.result])]
         ELSE Settle([p.s EXCEPT !.sent = Append(@, message("close", NoBody)),
                                 !.ret.closeSent = TRUE],
                     Resolved(p.result))

\* The holder of the root context calls commit().
Commit(c) ==
    /\ steps < MaxCalls
    /\ HasRoot(ctxs[c])
    /\ ctxs[c].chain = <<>>
    /\ ctxs' = [ctxs EXCEPT ![c] = commit(Calling(ctxs[c], "commit"))]
    /\ steps' = steps + 1
    /\ UNCHANGED <<transactions, posts, nextOp, mergeVars, gatewayVars>>

ChildCommitCloses(c) ==
    /\ steps < MaxCalls
    /\ ctxs[c].children > 0
    /\ ctxs[c].chain = <<>> \/ AtPc(ctxs[c], "fn", "run")
    /\ LET s == ctxs[c]
           s0 == IF s.chain = <<>> THEN Calling(s, "childCommit") ELSE s
           p == popNestedContext(s0)
           s1 == [p.s EXCEPT !.children = @ - 1,
                             !.openedAt = Front(@),
                             !.childOps = @ \cup Range(p.result.patch),
                             !.sent = Append(@, message("close", NoBody))]
       IN ctxs' = [ctxs EXCEPT ![c] =
              IF s.chain # <<>> THEN s1
              ELSE [s1 EXCEPT !.ret.st = IF p.ok THEN "ok" ELSE "err",
                              !.ret.val = p.result]]
    /\ steps' = steps + 1
    /\ UNCHANGED <<transactions, posts, nextOp, mergeVars, gatewayVars>>

\* The holder of a child proxy calls its commit(), once: popNestedContext.
ChildCommit(c) ==
    /\ steps < MaxCalls
    /\ ctxs[c].children > 0
    /\ ctxs[c].chain = <<>> \/ AtPc(ctxs[c], "fn", "run")
    /\ LET s == ctxs[c]
           s0 == IF s.chain = <<>> THEN Calling(s, "childCommit") ELSE s
           p == popNestedContext(s0)
           s1 == [p.s EXCEPT !.children = @ - 1,
                             !.openedAt = Front(@),
                             !.childOps = @ \cup Range(p.result.patch)]
       IN ctxs' = [ctxs EXCEPT ![c] =
              IF s.chain # <<>> THEN s1
              ELSE [s1 EXCEPT !.ret.st = IF p.ok THEN "ok" ELSE "err",
                              !.ret.val = p.result]]
    /\ steps' = steps + 1
    /\ UNCHANGED <<transactions, posts, nextOp, mergeVars, gatewayVars>>

\* A holder of the context (root or child) calls rollback(error), at any time.
Rollback(c) ==
    /\ steps < MaxCalls
    /\ HasHandle(ctxs[c])
    /\ LET s == ctxs[c] IN
       ctxs' = [ctxs EXCEPT ![c] =
           IF s.chain = <<>>
           THEN [rollback(Calling(s, "rollback")) EXCEPT !.ret.st = "ok"]
           ELSE rollback(s)]
    /\ steps' = steps + 1
    /\ UNCHANGED <<transactions, posts, nextOp, mergeVars, gatewayVars>>

\* What a command provider's getCommands resolves with (or "reject").
ProviderResults ==
    {[kind |-> "fn", cmd |-> "", patch |-> <<>>], [kind |-> "reject", cmd |-> "", patch |-> <<>>]}
    \cup {[kind |-> "command", cmd |-> t, patch |-> <<>>] : t \in CmdTypes}
    \cup {[kind |-> "patch", cmd |-> "", patch |-> p] : p \in Patches}

getCommandsAgain(c, provided) ==
    /\ AtPc(ctxs[c], "doExecute", "getCommands")
    /\ provided.kind = "fn" => Nesting(ctxs[c]) < MaxNest
    /\ LET s == ctxs[c]
           n == Len(s.chain)
       IN ctxs' = [ctxs EXCEPT ![c] =
            CASE provided.kind = "reject" ->
                    Settle([s EXCEPT !.chain = Front(@)], Rejected)
              [] provided.kind = "fn" ->
                    [pushNestedContext(s) EXCEPT
                        !.chain = Append([s.chain EXCEPT ![n].pc = "fn"],
                                         Activation("fn", "run"))]
              [] provided.kind = "command" ->
                    IF hasProvider(provided.cmd)
                    THEN [s EXCEPT !.chain = Append(@, Activation("doExecute", "getCommands"))]
                    ELSE sendExecuteMessage([s EXCEPT !.chain[n].pc = "send"],
                                            CommandBody(provided.cmd))
              [] OTHER ->
                    sendExecuteMessage([s EXCEPT !.chain[n].pc = "send"],
                                       PatchBody(provided.patch))]
    /\ UNCHANGED <<transactions, posts, steps, nextOp, mergeVars, gatewayVars>>

\* doExecute after the await of commandProviderRegistry.getCommands.
getCommands(c, provided) ==
    /\ AtPc(ctxs[c], "doExecute", "getCommands")
    /\ provided.kind = "fn" => Nesting(ctxs[c]) < MaxNest
    /\ LET s == ctxs[c]
           n == Len(s.chain)
       IN ctxs' = [ctxs EXCEPT ![c] =
            CASE provided.kind = "reject" ->
                    Settle([s EXCEPT !.chain = Front(@)], Rejected)
              [] provided.kind = "fn" ->
                    [pushNestedContext(s) EXCEPT
                        !.chain = Append([s.chain EXCEPT ![n].pc = "fn"],
                                         Activation("fn", "run"))]
              [] provided.kind = "command" ->
                    sendExecuteMessage([s EXCEPT !.chain[n].pc = "send"],
                                       CommandBody(provided.cmd))
              [] OTHER ->
                    sendExecuteMessage([s EXCEPT !.chain[n].pc = "send"],
                                       PatchBody(provided.patch))]
    /\ UNCHANGED <<transactions, posts, steps, nextOp, mergeVars, gatewayVars>>

\* Upstream's reply as MessageDataMapper.patchModel maps it: n fresh operations.
ReplyResult(ok, n) ==
    MkResult(ok, ok \/ n > 0, [i \in 1..n |-> nextOp + i - 1],
             IF ok /\ n > 0 THEN nextOp ELSE 0)

ReplyFailureRejects(c, ok, n) ==
    /\ AtPc(ctxs[c], "send", "reply")
    /\ ctxs[c].readyState = "OPEN"
    /\ LET s == ctxs[c]
           a == Top(s)
           r == ReplyResult(ok, n)
           s1 == [s EXCEPT !.chain = Front(@),
                           !.replied = @ \o r.patch,
                           !.replies = @ + 1,
                           !.nestedContexts =
                               IF a.cur <= Len(@)
                               THEN [@ EXCEPT ![a.cur] = MergeInto(@, r)]
                               ELSE @]
       IN ctxs' = [ctxs EXCEPT ![c] =
              Settle(s1, IF ok THEN Resolved(r) ELSE Rejected)]
    /\ nextOp' = nextOp + n
    /\ UNCHANGED <<transactions, posts, steps, mergeVars, gatewayVars>>

\* Upstream replies to the execute message that awaits its reply: the result
\* is merged into the frame captured before the send, and returned.
Reply(c, ok, n) ==
    /\ AtPc(ctxs[c], "send", "reply")
    /\ ctxs[c].readyState = "OPEN"
    /\ LET s == ctxs[c]
           a == Top(s)
           r == ReplyResult(ok, n)
           s1 == [s EXCEPT !.chain = Front(@),
                           !.replied = @ \o r.patch,
                           !.replies = @ + 1,
                           !.nestedContexts =
                               IF a.cur <= Len(@)
                               THEN [@ EXCEPT ![a.cur] = MergeInto(@, r)]
                               ELSE @]
       IN ctxs' = [ctxs EXCEPT ![c] = Settle(s1, Resolved(r))]
    /\ nextOp' = nextOp + n
    /\ UNCHANGED <<transactions, posts, steps, mergeVars, gatewayVars>>

\* A transaction function executes a command on the context it was given.
FnExecute(c, t) ==
    /\ steps < MaxCalls
    /\ AtPc(ctxs[c], "fn", "run")
    /\ ctxs' = [ctxs EXCEPT ![c] =
           execute([ctxs[c] EXCEPT !.chain[Len(ctxs[c].chain)].pc = "edit"], t)]
    /\ steps' = steps + 1
    /\ UNCHANGED <<transactions, posts, nextOp, mergeVars, gatewayVars>>

\* A transaction function applies a patch on the context it was given.
FnApplyPatch(c, patch) ==
    /\ steps < MaxCalls
    /\ AtPc(ctxs[c], "fn", "run")
    /\ ctxs' = [ctxs EXCEPT ![c] =
           applyPatch([ctxs[c] EXCEPT !.chain[Len(ctxs[c].chain)].pc = "edit"], patch)]
    /\ steps' = steps + 1
    /\ UNCHANGED <<transactions, posts, nextOp, mergeVars, gatewayVars>>

\* The function that is running was called by performTriggers.
IsTriggerFn(s) ==
    Len(s.chain) >= 2 /\ s.chain[Len(s.chain) - 1].k = "performTriggers"

FnReturnFalseRejects(c, b) ==
    /\ AtPc(ctxs[c], "fn", "run")
    /\ ctxs' = [ctxs EXCEPT ![c] =
           Settle([ctxs[c] EXCEPT !.chain = Front(@),
                                  !.ret.triggerFalse = @ \/ (~b /\ IsTriggerFn(ctxs[c]))],
                  IF b THEN Returned(b) ELSE Rejected)]
    /\ UNCHANGED <<transactions, posts, steps, nextOp, mergeVars, gatewayVars>>

\* A transaction function returns its boolean (ret.triggerFalse is history:
\* a trigger function returned false during the call).
FnReturn(c, b) ==
    /\ AtPc(ctxs[c], "fn", "run")
    /\ ctxs' = [ctxs EXCEPT ![c] =
           Settle([ctxs[c] EXCEPT !.chain = Front(@),
                                  !.ret.triggerFalse = @ \/ (~b /\ IsTriggerFn(ctxs[c]))],
                  Returned(b))]
    /\ UNCHANGED <<transactions, posts, steps, nextOp, mergeVars, gatewayVars>>

\* A transaction function throws (its own error, or that of an edit it awaited).
FnThrow(c) ==
    /\ AtPc(ctxs[c], "fn", "run")
    /\ ctxs' = [ctxs EXCEPT ![c] = Settle([ctxs[c] EXCEPT !.chain = Front(@)], Rejected)]
    /\ UNCHANGED <<transactions, posts, steps, nextOp, mergeVars, gatewayVars>>

\* What the trigger registry's getTriggers resolves with (or "reject").
TriggerResults ==
    {[kind |-> k, patch |-> <<>>] : k \in {"none", "fn", "reject"}}
    \cup {[kind |-> "patch", patch |-> p] : p \in Patches}

hasTriggers(triggers) ==
    triggers.kind = "fn" \/ (triggers.kind = "patch" /\ Len(triggers.patch) > 0)

\* performTriggers(triggers) up to its await.
performTriggers(s, triggers) ==
    LET s1 == pushNestedContext(
                  [s EXCEPT !.chain = Append(@, Activation("performTriggers", "await"))])
    IN IF triggers.kind = "fn"
       THEN [s1 EXCEPT !.chain = Append(@, Activation("fn", "run"))]
       ELSE applyPatch(s1, triggers.patch)

getTriggersClosesAtOnce(c, triggers) ==
    /\ AtPc(ctxs[c], "commit", "getTriggers")
    /\ hasTriggers(triggers) => steps < MaxCalls
    /\ triggers.kind = "fn" => Nesting(ctxs[c]) < MaxNest
    /\ LET s == ctxs[c]
           a == Top(s)
           s1 == [s EXCEPT !.chain = Front(@)]
       IN ctxs' = [ctxs EXCEPT ![c] =
            IF triggers.kind = "reject" THEN Settle(rollback(s1), Rejected)
            ELSE IF ~hasTriggers(triggers) \/ Len(a.upd.patch) > 0
                 THEN IF s1.readyState = "OPEN"
                      THEN Settle([s1 EXCEPT !.sent = Append(@, message("close", NoBody)),
                                             !.ret.closeSent = TRUE],
                                  Resolved(a.upd))
                      ELSE Settle(s1, Rejected)
            ELSE performTriggers([s EXCEPT !.chain[Len(s.chain)].pc = "trig"], triggers)]
    /\ steps' = IF hasTriggers(triggers) THEN steps + 1 ELSE steps
    /\ UNCHANGED <<transactions, posts, nextOp, mergeVars, gatewayVars>>

\* commit's loop after the await of autoRollback(getTriggers(...)).
getTriggers(c, triggers) ==
    /\ AtPc(ctxs[c], "commit", "getTriggers")
    /\ hasTriggers(triggers) => steps < MaxCalls
    /\ triggers.kind = "fn" => Nesting(ctxs[c]) < MaxNest
    /\ LET s == ctxs[c]
           a == Top(s)
           s1 == [s EXCEPT !.chain = Front(@)]
       IN ctxs' = [ctxs EXCEPT ![c] =
            IF triggers.kind = "reject" THEN Settle(rollback(s1), Rejected)
            ELSE IF ~hasTriggers(triggers)
                 THEN IF s1.readyState = "OPEN"
                      THEN Settle([s1 EXCEPT !.sent = Append(@, message("close", NoBody)),
                                             !.ret.closeSent = TRUE],
                                  Resolved(a.upd))
                      ELSE Settle(s1, Rejected)
            ELSE performTriggers([s EXCEPT !.chain[Len(s.chain)].pc = "trig"], triggers)]
    /\ steps' = IF hasTriggers(triggers) THEN steps + 1 ELSE steps
    /\ UNCHANGED <<transactions, posts, nextOp, mergeVars, gatewayVars>>

\* Contexts constructed or about to be, for the bounds.
Contexts(u) == Len(ctxs) + posts[Normalize(u)]

Init == MainIdle /\ MergeIdle /\ GatewayIdle

Next ==
    \/ \E u \in RawUris : Contexts(u) < MaxCtx /\ openTransactionPost(u)
    \/ \E u \in RawUris : openTransactionNested(u)
    \/ \E k \in UriKeys : PostReturn(k)
    \/ \E k \in UriKeys : PostFail(k)
    \/ \E c \in Ctxs : SocketOpen(c)
    \/ \E c \in Ctxs : UuidMessage(c)
    \/ \E c \in Ctxs : SocketError(c)
    \/ \E c \in Ctxs : SocketClose(c)
    \/ \E c \in Ctxs, t \in CmdTypes : Execute(c, t)
    \/ \E c \in Ctxs, p \in Patches : ApplyPatch(c, p)
    \/ \E c \in Ctxs : Commit(c)
    \/ \E c \in Ctxs : ChildCommit(c)
    \/ \E c \in Ctxs : Rollback(c)
    \/ \E c \in Ctxs, r \in ProviderResults : getCommands(c, r)
    \/ \E c \in Ctxs, ok \in BOOLEAN, n \in 0..MaxReplyOps : Reply(c, ok, n)
    \/ \E c \in Ctxs, t \in CmdTypes : FnExecute(c, t)
    \/ \E c \in Ctxs, p \in Patches : FnApplyPatch(c, p)
    \/ \E c \in Ctxs, b \in BOOLEAN : FnReturn(c, b)
    \/ \E c \in Ctxs : FnThrow(c)
    \/ \E c \in Ctxs, t \in TriggerResults : getTriggers(c, t)

Spec == Init /\ [][Next]_vars

\* The manager and the sockets of its contexts, with the calls that end a
\* transaction; clients may open concurrently.
NextManager ==
    \/ \E u \in RawUris : Contexts(u) < MaxRoots /\ openTransactionPost(u)
    \/ \E u \in RawUris : openTransactionNested(u)
    \/ \E k \in UriKeys : PostReturn(k)
    \/ \E k \in UriKeys : PostFail(k)
    \/ \E c \in Ctxs : SocketOpen(c)
    \/ \E c \in Ctxs : UuidMessage(c)
    \/ \E c \in Ctxs : SocketError(c)
    \/ \E c \in Ctxs : SocketClose(c)
    \/ \E c \in Ctxs : Commit(c)
    \/ \E c \in Ctxs : ChildCommit(c)
    \/ \E c \in Ctxs : Rollback(c)

SpecManager == Init /\ [][NextManager]_vars

\* One DefaultTransactionContext as the openTransaction call that made it
\* leaves it (constructed, registered, open() called, the socket connecting),
\* with its socket, its clients, the providers and Upstream.
InitContext ==
    /\ ctxs \in {<<NewContext(k)>> : k \in UriKeys}
    /\ transactions = [k \in UriKeys |-> IF k = ctxs[1].uri THEN 1 ELSE 0]
    /\ posts = [k \in UriKeys |-> 0]
    /\ steps = 1
    /\ nextOp = 1
    /\ MergeIdle
    /\ GatewayIdle

NextContext ==
    \/ \E u \in RawUris : openTransactionNested(u)
    \/ \E c \in Ctxs : SocketOpen(c)
    \/ \E c \in Ctxs : UuidMessage(c)
    \/ \E c \in Ctxs : SocketError(c)
    \/ \E c \in Ctxs : SocketClose(c)
    \/ \E c \in Ctxs, t \in CmdTypes : Execute(c, t)
    \/ \E c \in Ctxs, p \in Patches : ApplyPatch(c, p)
    \/ \E c \in Ctxs : Commit(c)
    \/ \E c \in Ctxs : ChildCommit(c)
    \/ \E c \in Ctxs : Rollback(c)
    \/ \E c \in Ctxs, r \in ProviderResults : getCommands(c, r)
    \/ \E c \in Ctxs, ok \in BOOLEAN, n \in 0..MaxReplyOps : Reply(c, ok, n)
    \/ \E c \in Ctxs, t \in CmdTypes : FnExecute(c, t)
    \/ \E c \in Ctxs, p \in Patches : FnApplyPatch(c, p)
    \/ \E c \in Ctxs, b \in BOOLEAN : FnReturn(c, b)
    \/ \E c \in Ctxs : FnThrow(c)
    \/ \E c \in Ctxs, t \in TriggerResults : getTriggers(c, t)

SpecContext == InitContext /\ [][NextContext]_vars

\* The context as openTransaction resolves with it: socket open, uuid received.
OpenedContext(key) ==
    [NewContext(key) EXCEPT !.readyState = "OPEN", !.uuid = "resolved",
                            !.opened = "resolved", !.ret.st = "ok"]

InitCommit ==
    /\ ctxs \in {<<OpenedContext(k)>> : k \in UriKeys}
    /\ transactions = [k \in UriKeys |-> IF k = ctxs[1].uri THEN 1 ELSE 0]
    /\ posts = [k \in UriKeys |-> 0]
    /\ steps = 1
    /\ nextOp = 1
    /\ MergeIdle
    /\ GatewayIdle

\* One open context whose holder edits and commits, with the promises the
\* commit awaits settling in the end: Upstream replies to an execute whose
\* reply is awaited, the trigger registry answers, a transaction function ends.
NextCommit ==
    \/ \E c \in Ctxs, t \in CmdTypes : Execute(c, t)
    \/ \E c \in Ctxs : Commit(c)
    \/ \E c \in Ctxs, r \in ProviderResults : getCommands(c, r)
    \/ \E c \in Ctxs, ok \in BOOLEAN, n \in 0..MaxReplyOps : Reply(c, ok, n)
    \/ \E c \in Ctxs, b \in BOOLEAN : FnReturn(c, b)
    \/ \E c \in Ctxs : FnThrow(c)
    \/ \E c \in Ctxs, t \in TriggerResults : getTriggers(c, t)

\* One open context, counting the calls made on it: a holder opens child
\* transactions, executes commands without a provider through them, commits
\* them and commits the root.
InitChild ==
    /\ ctxs \in {<<OpenedContext(k)>> : k \in UriKeys}
    /\ transactions = [k \in UriKeys |-> IF k = ctxs[1].uri THEN 1 ELSE 0]
    /\ posts = [k \in UriKeys |-> 0]
    /\ steps = 0
    /\ nextOp = 1
    /\ MergeIdle
    /\ GatewayIdle

NextChild ==
    \/ \E u \in RawUris : openTransactionNested(u)
    \/ \E c \in Ctxs, t \in {x \in CmdTypes : ~hasProvider(x)} : Execute(c, t)
    \/ \E c \in Ctxs : Commit(c)
    \/ \E c \in Ctxs : ChildCommit(c)
    \/ \E c \in Ctxs, ok \in BOOLEAN, n \in 0..MaxReplyOps : Reply(c, ok, n)
    \/ \E c \in Ctxs, b \in BOOLEAN : FnReturn(c, b)
    \/ \E c \in Ctxs : FnThrow(c)
    \/ \E c \in Ctxs, t \in TriggerResults : getTriggers(c, t)

SpecChild == InitChild /\ [][NextChild]_vars

\* One open context, counting the calls made on it: its holder executes
\* commands without a provider and commits; the triggers are patches or
\* functions that apply patches.
NextTrigger ==
    \/ \E c \in Ctxs, t \in {x \in CmdTypes : ~hasProvider(x)} : Execute(c, t)
    \/ \E c \in Ctxs : Commit(c)
    \/ \E c \in Ctxs, ok \in BOOLEAN, n \in 0..MaxReplyOps : Reply(c, ok, n)
    \/ \E c \in Ctxs, p \in Patches : FnApplyPatch(c, p)
    \/ \E c \in Ctxs, b \in BOOLEAN : FnReturn(c, b)
    \/ \E c \in Ctxs : FnThrow(c)
    \/ \E c \in Ctxs, t \in TriggerResults : getTriggers(c, t)

SpecTrigger == InitChild /\ [][NextTrigger]_vars

SpecCommitFair ==
    /\ InitCommit
    /\ [][NextCommit]_vars
    /\ WF_vars(\E c \in Ctxs, ok \in BOOLEAN, n \in 0..MaxReplyOps : Reply(c, ok, n))
    /\ WF_vars(\E c \in Ctxs, t \in TriggerResults : getTriggers(c, t))
    /\ WF_vars(\E c \in Ctxs : FnThrow(c) \/ \E b \in BOOLEAN : FnReturn(c, b))

----------------------------------------------------------------------------
(* Properties of the manager and of one transaction socket *)

NumSent(s, type) == Cardinality({i \in 1..Len(s.sent) : s.sent[i].type = type})

\* Every aggregate a caller can still observe: the frames, the updateResult
\* of a commit in progress, the value the last call returned.
Aggregates(s) ==
    Range(s.nestedContexts)
    \cup {s.chain[i].upd : i \in {j \in 1..Len(s.chain) : s.chain[j].k = "commit"}}
    \cup {s.ret.val}

\* The root contexts of a model whose socket has not closed.
LiveRoots(key) == {c \in Ctxs : ctxs[c].uri = key /\ ctxs[c].readyState # "CLOSED"}

\* C1: for every model URI and every interleaving of openTransaction calls,
\* at most one root TransactionContext (own socket, not yet closed) exists
\* for the normalized URI at any time.
C1_OneRootPerModel ==
    \A key \in UriKeys : Cardinality(LiveRoots(key)) <= 1

\* C2: over the life of one transaction socket at most one roll-back message
\* is sent, whatever rejects and however often rollback is called.
C2_AtMostOneRollback ==
    \A c \in Ctxs : NumSent(ctxs[c], "roll-back") <= 1

\* C3: once a roll-back message has been sent on a socket no close message is
\* sent on it afterwards, and a commit called afterwards returns {success: false}.
C3_NoCloseAfterRollback ==
    \A c \in Ctxs :
        /\ \A i, j \in 1..Len(ctxs[c].sent) :
               i < j /\ ctxs[c].sent[i].type = "roll-back" => ctxs[c].sent[j].type # "close"
        /\ ctxs[c].ret.op = "commit" /\ ctxs[c].ret.afterRollback /\ ctxs[c].ret.st # "pending"
               => ctxs[c].ret.st = "ok" /\ ctxs[c].ret.val = transactionClosed

\* C4: no execute, close or roll-back message is sent on a transaction socket
\* before the UUID has been received.
C4_NothingSentBeforeUuid ==
    \A c \in Ctxs : ctxs[c].uuid # "resolved" => ctxs[c].sent = <<>>

\* C5: the success flag of an aggregate is the logical AND of the success
\* flags of every result merged into it, replies without operations included.
C5_SuccessIsConjunction ==
    \A c \in Ctxs : \A r \in Aggregates(ctxs[c]) : r.success = r.allOk

\* C7: when a command provider's transaction function returns false, none of
\* the operations replied to its edits appear in the parent frame's aggregate
\* or in a result later returned by commit.
C7_FalseReturnDiscardsFrame ==
    \A c \in Ctxs : \A r \in Aggregates(ctxs[c]) :
        Range(r.patch) \cap ctxs[c].discarded = {}

\* C8: on one transaction socket close is sent at most once, and after close
\* has been sent no execute, no roll-back and no further close is sent.
C8_CloseIsLast ==
    \A c \in Ctxs : \A i \in 1..Len(ctxs[c].sent) :
        ctxs[c].sent[i].type = "close" => i = Len(ctxs[c].sent)

\* C9: after any successful root commit (close sent), and after any rollback,
\* the frame stack of the context is empty.
C9_StackEmptyAfterEnd ==
    \A c \in Ctxs :
        /\ ctxs[c].ret.op = "rollback" /\ ctxs[c].ret.st = "ok"
               => ctxs[c].nestedContexts = <<>>
        /\ ctxs[c].ret.op = "commit" /\ ctxs[c].ret.st = "ok" /\ ctxs[c].ret.closeSent
               => ctxs[c].nestedContexts = <<>>

\* C10: the frame stack of a root context is nonempty from open() until the
\* socket is closed, and no operation pops a frame from an empty stack.
C10_StackNonemptyWhileOpen ==
    \A c \in Ctxs :
        /\ ctxs[c].readyState # "CLOSED" => ctxs[c].nestedContexts # <<>>
        /\ ~ctxs[c].popEmpty

\* A close or roll-back message has gone out on the socket.
TerminatorSent(s) == HasSent(s, "close") \/ HasSent(s, "roll-back")

\* The last call of a client ended the use of the context: commit settled,
\* execute or applyPatch rejected, or rollback returned.
UseEnded(s) ==
    \/ s.ret.op = "commit" /\ s.ret.st # "pending"
    \/ s.ret.op \in {"execute", "applyPatch"} /\ s.ret.st = "err"
    \/ s.ret.op = "rollback" /\ s.ret.st = "ok"

\* C11: on every way the use of a root context can end (commit succeeding,
\* execute or applyPatch rejecting, commit rejecting in the trigger step,
\* explicit rollback) a close or roll-back message is sent, so that Upstream
\* closes the socket and the map entry is eventually removed; here: a use that
\* began and ended with the socket open has sent its terminator.
C11_TerminatorOnEveryExit ==
    \A c \in Ctxs :
        UseEnded(ctxs[c]) /\ ctxs[c].ret.wasOpen /\ isOpen(ctxs[c])
            => TerminatorSent(ctxs[c])

\* What one step does to a context that exists before and after it.
OpensChild(c) == ctxs'[c].children > ctxs[c].children

CommitsChild(c) == ctxs'[c].children < ctxs[c].children

SendsClose(c) == NumSent(ctxs'[c], "close") > NumSent(ctxs[c], "close")

\* One step of the second openTransaction, of the child's commit and of the
\* sending of close.
NestedOpenStep ==
    /\ \A k \in UriKeys : posts'[k] > posts[k] => transactions[k] = 0
    /\ \A c \in Ctxs :
           /\ OpensChild(c) =>
                  /\ transactions[ctxs[c].uri] = c
                  /\ ctxs' = [ctxs EXCEPT ![c] = ctxs'[c]]
                  /\ posts' = posts /\ transactions' = transactions
                  /\ Len(ctxs'[c].nestedContexts) = Len(ctxs[c].nestedContexts) + 1
                  /\ ctxs'[c].readyState = ctxs[c].readyState
                  /\ ctxs'[c].sent = ctxs[c].sent
           /\ CommitsChild(c) => ctxs'[c].sent = ctxs[c].sent
           /\ SendsClose(c) => ctxs'[c].ret.op = "commit"

SentSince(s) == SubSeq(s.sent, s.ret.sentAt + 1, Len(s.sent))

RepliedSince(s) == SubSeq(s.replied, s.ret.repliedAt + 1, Len(s.replied))

Occurrences(seq, x) == Cardinality({i \in 1..Len(seq) : seq[i] = x})

IsExecute(m) == m.type = "execute"

\* The execute messages one step sends on the socket of context c.
ExecutesSent(c) ==
    SelectSeq(SubSeq(ctxs'[c].sent, Len(ctxs[c].sent) + 1, Len(ctxs'[c].sent)), IsExecute)

\* The edit is passed on at once: the socket is open, the uuid is there and
\* a frame collects the reply.
PassesOn(s) == isOpen(s) /\ s.uuid = "resolved" /\ s.nestedContexts # <<>>

\* A step sends at most one execute message, and that message carries the
\* edit issued, substituted or resumed in the step; a command with a provider
\* is never sent for itself, and an edit a transaction function issues while
\* the context passes edits on is sent in the same step.
ExecuteMessageStep ==
    \A c \in Ctxs :
        LET new == ExecutesSent(c)
            s == ctxs[c]
        IN /\ Len(new) <= 1
           /\ Len(new) = 1 =>
                \/ \E t \in CmdTypes :
                       /\ Execute(c, t) \/ FnExecute(c, t)
                       /\ ~hasProvider(t) /\ new[1].body = CommandBody(t)
                \/ \E q \in Patches :
                       /\ ApplyPatch(c, q) \/ FnApplyPatch(c, q)
                       /\ new[1].body = PatchBody(q)
                \/ \E r \in ProviderResults :
                       /\ getCommands(c, r)
                       /\ \/ r.kind = "command" /\ new[1].body = CommandBody(r.cmd)
                          \/ r.kind = "patch" /\ new[1].body = PatchBody(r.patch)
                \/ UuidMessage(c) /\ AtPc(s, "send", "uuid") /\ new[1].body = Top(s).body
                \/ \E tr \in TriggerResults :
                       getTriggers(c, tr) /\ new[1].body = PatchBody(tr.patch)
           /\ \A t \in CmdTypes :
                  FnExecute(c, t) /\ ~hasProvider(t) /\ PassesOn(s) => Len(new) = 1
           /\ \A q \in Patches :
                  FnApplyPatch(c, q) /\ q # <<>> /\ PassesOn(s) => Len(new) = 1

\* The last call ran to its end with the socket open, without a roll-back and
\* without a child transaction opened or committed meanwhile.
Undisturbed(s) ==
    /\ isOpen(s)
    /\ \A i \in 1..Len(SentSince(s)) : SentSince(s)[i].type = "execute"
    /\ s.children = s.ret.childrenAt
    /\ Len(s.nestedContexts) = s.ret.framesAt

\* The result an execute call resolved with holds the operations of the
\* replies received during the call, in their order, and the frame on top of
\* the stack (the parent's) holds each of them once.
ExecuteResultIsConcatenation ==
    \A c \in Ctxs :
        LET s == ctxs[c] IN
        s.ret.op = "execute" /\ s.ret.st = "ok" /\ Undisturbed(s) =>
            /\ s.ret.val.patch = RepliedSince(s)
            /\ s.nestedContexts # <<>> =>
                   \A op \in Range(s.ret.val.patch) :
                       Occurrences(Last(s.nestedContexts).patch, op) = 1

InTriggerRound(s) == s.chain # <<>> /\ s.chain[1].k = "commit" /\ s.chain[1].pc = "trig"

\* The last call, a commit, resolved after sending close with the socket open,
\* without a roll-back and without a child opened or committed meanwhile.
CommitSucceeded(s) ==
    /\ s.ret.op = "commit" /\ s.ret.st = "ok" /\ s.ret.closeSent
    /\ isOpen(s)
    /\ ~HasSent([sent |-> SentSince(s)], "roll-back")
    /\ s.children = s.ret.childrenAt
    /\ Len(s.nestedContexts) = s.ret.framesAt - 1

\* What commit returns and sends: the patch of the frame it popped followed
\* by the operations of the trigger rounds' replies, and one close, last.
CommitResultIsConcatenation ==
    \A c \in Ctxs :
        LET s == ctxs[c]
            new == SentSince(s)
        IN CommitSucceeded(s) =>
            /\ s.ret.val.patch = s.ret.patchAt \o RepliedSince(s)
            /\ \A op \in Range(s.ret.val.patch) : Occurrences(s.ret.val.patch, op) = 1
            /\ new # <<>> /\ Last(new).type = "close"
            /\ \A i \in 1..(Len(new) - 1) : new[i].type = "execute"

\* The steps of commit's loop: a commit with a patch consults the registry
\* before anything is sent; a round that ends with a patch consults it again
\* with more merged in; close is sent only when the delta or the triggers
\* are empty.
TriggerLoopStep ==
    \A c \in Ctxs :
        LET s == ctxs[c]
            s2 == ctxs'[c]
        IN /\ Commit(c) /\ isOpen(s) /\ s2.ret.patchAt # <<>>
              => AtPc(s2, "commit", "getTriggers") /\ s2.sent = s.sent
           /\ InTriggerRound(s) /\ AtPc(s2, "commit", "getTriggers")
              => /\ Len(s2.chain[1].upd.patch) > Len(s.chain[1].upd.patch)
                 /\ s2.sent = s.sent
           /\ SendsClose(c) =>
                \/ Commit(c) /\ s2.ret.patchAt = <<>>
                \/ \E tr \in TriggerResults : getTriggers(c, tr) /\ ~hasTriggers(tr)
                \/ InTriggerRound(s) /\ s2.ret.val.patch = s.chain[1].upd.patch

\* C14: on root commit the trigger registry is consulted with the root
\* frame's patch and then with the patch of each round's result until the
\* delta or the triggers are empty; commit returns the root patch followed by
\* each round's patch in order, each once, and exactly one close is sent,
\* after the last trigger execute.
C14_TriggerLoopAggregates ==
    []CommitResultIsConcatenation /\ [][TriggerLoopStep]_vars

C14_Witness ==
    \E c \in Ctxs :
        LET s == ctxs[c] IN
        /\ CommitSucceeded(s)
        /\ Len(s.ret.patchAt) = 1
        /\ Len(RepliedSince(s)) = 1
        /\ s.ret.val.patch = s.ret.patchAt \o RepliedSince(s)
        /\ SentSince(s) = <<message("execute", PatchBody(<<0>>)), message("close", NoBody)>>

\* A step leaves the socket and the frame stack of context c alone.
NoWireNoFrames(c) ==
    /\ ctxs'[c].sent = ctxs[c].sent
    /\ ctxs'[c].nestedContexts = ctxs[c].nestedContexts

\* The calls made while isOpen() is false: a client's edit rejects at once, a
\* transaction function's edit is back in the function at once, no provider
\* is awaited; rollback returns transactionClosed.
ClosedCallStep ==
    \A c \in Ctxs :
        LET s == ctxs[c]
            s2 == ctxs'[c]
        IN ~isOpen(s) =>
            /\ \A t \in CmdTypes :
                   Execute(c, t) =>
                       NoWireNoFrames(c) /\ s2.chain = <<>> /\ s2.ret.st = "err"
            /\ \A q \in Patches :
                   ApplyPatch(c, q) =>
                       NoWireNoFrames(c) /\ s2.chain = <<>> /\ s2.ret.st = "err"
            /\ \A t \in CmdTypes :
                   FnExecute(c, t) =>
                       NoWireNoFrames(c) /\ s2.chain = [s.chain EXCEPT ![Len(s.chain)].pc = "run"]
            /\ \A q \in Patches :
                   FnApplyPatch(c, q) =>
                       NoWireNoFrames(c) /\ s2.chain = [s.chain EXCEPT ![Len(s.chain)].pc = "run"]
            /\ Rollback(c) =>
                   /\ NoWireNoFrames(c)
                   /\ s2.chain = s.chain
                   /\ s.chain = <<>> => s2.ret.st = "ok" /\ s2.ret.val = transactionClosed

\* C15: when isOpen() is false, edit, execute and applyPatch each reject with
\* a socket-closed error, send no message, consult no registry and leave the
\* frame stack unchanged; rollback sends nothing and returns {success: false}.
C15_ClosedSocketFailsFast == [][ClosedCallStep]_vars

C15_Witness ==
    \E c \in Ctxs :
        LET s == ctxs[c] IN
        /\ s.readyState = "CLOSED"
        /\ s.ret.op = "execute" /\ ~s.ret.wasOpen /\ s.ret.st = "err"
        /\ Len(s.sent) = s.ret.sentAt
        /\ Len(s.nestedContexts) = s.ret.framesAt
        /\ s.chain = <<>>

\* The last call of a client was applyPatch with an empty patch.
EmptyPatchApplied(s) == s.ret.op = "applyPatch" /\ s.ret.emptyPatch

\* It returned {success: false} as a value and sent nothing.
ReturnedClosedResult(s) ==
    /\ s.ret.st = "ok" /\ s.ret.val = transactionClosed
    /\ Len(s.sent) = s.ret.sentAt
    /\ Len(s.nestedContexts) = s.ret.framesAt

\* C16: applyPatch called with an empty or nil patch returns {success: false}
\* as a value, not a rejection, sends no execute and no roll-back message and
\* leaves the frame stack and every frame's aggregate unchanged.
C16_EmptyPatchReturnsValue ==
    \A c \in Ctxs : EmptyPatchApplied(ctxs[c]) => ReturnedClosedResult(ctxs[c])

\* An applyPatch with an empty patch on an open context: by a client, it
\* resolves in the same step; by a transaction function, it is back in the
\* function in the same step; nothing is sent, no frame changes.
EmptyPatchStep ==
    \A c \in Ctxs :
        LET s == ctxs[c]
            s2 == ctxs'[c]
        IN isOpen(s) =>
            /\ ApplyPatch(c, <<>>) =>
                   /\ NoWireNoFrames(c) /\ s2.chain = <<>>
                   /\ s2.ret.st = "ok" /\ s2.ret.val = transactionClosed
            /\ FnApplyPatch(c, <<>>) =>
                   /\ NoWireNoFrames(c)
                   /\ s2.chain = [s.chain EXCEPT ![Len(s.chain)].pc = "run"]

\* C16, amended: on a context whose socket is open, applyPatch with an
\* empty patch returns {success: false} as a value, sends nothing and leaves
\* every frame as it is.
C16_EmptyPatchOnOpenSocket == [][EmptyPatchStep]_vars

C16_Witness ==
    \E c \in Ctxs :
        /\ EmptyPatchApplied(ctxs[c]) /\ ctxs[c].ret.wasOpen
        /\ isOpen(ctxs[c]) /\ ctxs[c].uuid = "resolved"
        /\ ReturnedClosedResult(ctxs[c])

\* The socket of the context closed before Upstream's uuid arrived.
ClosedBeforeUuid(s) == s.readyState = "CLOSED" /\ s.uuid # "resolved"

\* C17: if opening a root transaction fails (the POST or the handshake fails,
\* the socket closes or errors before the UUID is delivered) the promise of
\* openTransaction rejects, it neither stays pending nor resolves, and after
\* the socket's close the map holds no entry for this context; here: once the
\* socket has closed without a uuid, open() has rejected and the entry is gone.
C17_FailedOpenRejects ==
    \A c \in Ctxs :
        ClosedBeforeUuid(ctxs[c]) =>
            /\ ctxs[c].opened = "rejected"
            /\ transactions[ctxs[c].uri] # c

\* State Open of a context: the handshake is complete and the uuid is there.
Open(s) == isOpen(s) /\ s.uuid = "resolved"

\* One step in which openTransaction resolves: with a child of context c, or
\* with the root c itself.
ResolvesOpenStep ==
    \A c \in Ctxs :
        /\ OpensChild(c) => Open(ctxs[c])
        /\ ctxs[c].opened = "pending" /\ ctxs'[c].opened = "resolved" => Open(ctxs'[c])

\* C18: every TransactionContext the manager's openTransaction resolves with,
\* a new root or a nested child of a registered root, is in state Open at the
\* moment of resolution: handshake complete and UUID received.
C18_ResolvedContextIsOpen == [][ResolvesOpenStep]_vars

\* closeCallback has fired once for a closed socket, never for another.
CloseCallbackOnce ==
    \A c \in Ctxs :
        ctxs[c].closeCalls = IF ctxs[c].readyState = "CLOSED" THEN 1 ELSE 0

\* The step in which the socket of context c closes: the callback fires, and
\* of the map only an entry that is c itself goes; no other step of c's
\* socket fires the callback.
CloseCallbackStep ==
    \A c \in Ctxs :
        IF ctxs[c].readyState # "CLOSED" /\ ctxs'[c].readyState = "CLOSED"
        THEN /\ ctxs'[c].closeCalls = ctxs[c].closeCalls + 1
             /\ \A k \in UriKeys :
                    transactions'[k] = IF transactions[k] = c THEN 0 ELSE transactions[k]
        ELSE ctxs'[c].closeCalls = ctxs[c].closeCalls

\* C19: the close callback of a context fires exactly once, when its socket
\* closes, and removes the map entry for the model only if that entry is this
\* very context; it never removes or replaces an entry that refers to a
\* different, newer context for the same model.
C19_CloseCallbackOwnEntryOnly ==
    []CloseCallbackOnce /\ [][CloseCallbackStep]_vars

C19_Witness ==
    \E c, d \in Ctxs :
        /\ c < d /\ ctxs[c].uri = ctxs[d].uri
        /\ ctxs[c].readyState = "CLOSED" /\ ctxs[c].closeCalls = 1
        /\ ctxs[d].readyState # "CLOSED"
        /\ transactions[ctxs[d].uri] = d

\* Execute messages of the context that Upstream has not replied to.
AwaitingReply(s) == NumSent(s, "execute") - s.replies

AtMostOneAwaiting == \A c \in Ctxs : AwaitingReply(ctxs[c]) \in {0, 1}

\* An execute message is sent only when every earlier one has its reply, and
\* the step that receives a reply merges its operations into an aggregate.
SequentialStep ==
    \A c \in Ctxs :
        LET s == ctxs[c]
            s2 == ctxs'[c]
        IN /\ Len(ExecutesSent(c)) > 0 => AwaitingReply(s) = 0
           /\ s2.replies > s.replies =>
                  \A i \in (Len(s.replied) + 1)..Len(s2.replied) :
                      \E r \in Aggregates(s2) : s2.replied[i] \in Range(r.patch)

\* C20: for edits issued one after the other on one context, each awaited
\* before the next, Upstream receives the execute messages in the order of the
\* edits, the reply to each is received and merged before the next message is
\* sent, and two execute messages are never both awaiting a reply.
C20_EditsAreSerialized ==
    []AtMostOneAwaiting /\ [][SequentialStep /\ ExecuteMessageStep]_vars

C20_Witness ==
    \E c \in Ctxs :
        LET s == ctxs[c] IN
        /\ s.chain = <<>> /\ s.ret.op = "execute" /\ s.ret.st = "ok"
        /\ NumSent(s, "execute") = 2 /\ s.replies = 2
        /\ Len(s.replied) = 2
        /\ s.sent[1].body # s.sent[2].body
        /\ s.nestedContexts # <<>> /\ Last(s.nestedContexts).patch = s.replied

\* The commit of context c rejects in this step, out of its trigger loop
\* (awaiting getTriggers or performTriggers), with the socket open throughout.
TriggerStepRejects(c) ==
    /\ ctxs[c].chain # <<>>
    /\ ctxs[c].chain[1].k = "commit"
    /\ ctxs[c].ret.st = "pending"
    /\ ctxs'[c].ret.op = "commit"
    /\ ctxs'[c].ret.st = "err"
    /\ isOpen(ctxs[c])
    /\ isOpen(ctxs'[c])

\* C25: when the trigger step of commit rejects (getTriggers rejects, the
\* execute of a trigger patch rejects, or a trigger transaction function
\* rejects, with or without having touched the wire), a roll-back message has
\* been sent, no close message has been sent, the frame pushed for the triggers
\* has been popped, and commit does not return a successful result.
C25_TriggerFailureRollsBack ==
    [][\A c \in Ctxs :
          TriggerStepRejects(c) =>
              /\ NumSent(ctxs'[c], "roll-back") > 0
              /\ ~ctxs'[c].ret.closeSent
              /\ Len(ctxs'[c].nestedContexts) = ctxs[c].ret.framesAt - 1
              /\ ctxs'[c].ret.st # "ok"]_vars

\* A reply arrives on context c in this step, after a roll-back message has
\* gone out on its socket.
ReplyAfterRollback(c) ==
    /\ ctxs'[c].replies > ctxs[c].replies
    /\ HasSent(ctxs[c], "roll-back")

\* The operations the reply of this step carries.
ReplyOps(c) == Range(ctxs'[c].replied) \ Range(ctxs[c].replied)

\* C26: a reply from Upstream that arrives after a roll-back message has been
\* sent on the same socket is discarded: its operations are merged into no
\* frame's aggregate and show in no result the caller gets.
C26_ReplyAfterRollbackDiscarded ==
    [][\A c \in Ctxs :
          ReplyAfterRollback(c) =>
              /\ \A i \in 1..Len(ctxs'[c].nestedContexts) :
                     Range(ctxs'[c].nestedContexts[i].patch) \cap ReplyOps(c) = {}
              /\ Range(ctxs'[c].ret.val.patch) \cap ReplyOps(c) = {}]_vars

\* One step of an execute call that is passed on to Upstream: the call of a
\* command without a provider sends one execute message with the command; the
\* substitute command or patch a provider returns is sent in one execute
\* message, whatever its type, and the registry is not awaited again; nothing
\* more is sent while the reply is awaited.
SendsOnceStep ==
    \A c \in Ctxs :
        LET s == ctxs[c] IN
        /\ \A t \in CmdTypes :
               (Execute(c, t) \/ FnExecute(c, t)) /\ ~hasProvider(t) /\ PassesOn(s)
                   => ExecutesSent(c) = <<message("execute", CommandBody(t))>>
        /\ \A r \in ProviderResults :
               getCommands(c, r) /\ r.kind \in {"command", "patch"} /\ PassesOn(s)
                   => /\ ExecutesSent(c) =
                             <<message("execute", IF r.kind = "command" THEN CommandBody(r.cmd)
                                                  ELSE PatchBody(r.patch))>>
                      /\ ~AtPc(ctxs'[c], "doExecute", "getCommands")
                      /\ AtPc(ctxs'[c], "send", "reply")
        /\ AtPc(s, "send", "reply") => ExecutesSent(c) = <<>>

\* C27: an execute(cmd) call whose command type has no provider sends exactly
\* one execute message carrying cmd; when the provider returns a substitute
\* command or patch, exactly one execute message carrying the substitute is
\* sent and the registry is not consulted again for the substitute, even if
\* the substitute's type has a provider itself.
C27_SubstituteSentOnce == [][SendsOnceStep]_vars

C27_Witness ==
    \E c \in Ctxs, t \in CmdTypes :
        /\ hasProvider(t)
        /\ ctxs[c].ret.op = "execute" /\ ctxs[c].ret.st = "ok"
        /\ SentSince(ctxs[c]) = <<message("execute", CommandBody(t))>>
        /\ ctxs[c].replies = 1

\* The commit of context c is under way.
CommitRuns(c) ==
    c \in Ctxs /\ ctxs[c].ret.op = "commit" /\ ctxs[c].ret.st = "pending"

\* The commit of context c has sent close and returned; or its trigger step
\* has rejected.
CommitEnded(c) ==
    /\ c \in Ctxs
    /\ \/ ctxs[c].ret.op = "commit" /\ ctxs[c].ret.st = "ok" /\ ctxs[c].ret.closeSent
       \/ ctxs[c].ret.op = "commit" /\ ctxs[c].ret.st = "err"

\* The reply to the execute of a trigger patch is awaited.
AwaitsTriggerPatchReply(s) ==
    /\ InTriggerRound(s)
    /\ Len(s.chain) = 4
    /\ s.chain[3].k = "applyPatch"
    /\ AtPc(s, "send", "reply")

\* One step of the trigger loop that goes on: a non-empty trigger starts a
\* round and a non-empty patch in the reply to a trigger patch brings commit
\* back to the registry, however many rounds there have been; close is not sent.
NoBoundStep ==
    \A c \in Ctxs :
        LET s == ctxs[c]
            s2 == ctxs'[c]
        IN /\ \A tr \in TriggerResults :
                  getTriggers(c, tr) /\ hasTriggers(tr) /\ isOpen(s)
                      => InTriggerRound(s2) /\ ~SendsClose(c) /\ CommitRuns(c)'
           /\ \A ok \in BOOLEAN, n \in 1..MaxReplyOps :
                  Reply(c, ok, n) /\ AwaitsTriggerPatchReply(s)
                      => AtPc(s2, "commit", "getTriggers") /\ ~SendsClose(c)

\* C28: if Upstream replies to every execute and the trigger provider returns
\* an empty result (or a round yields an empty patch) after finitely many
\* rounds, commit eventually sends close and returns; the core bounds the
\* number of rounds in no way: as long as the provider returns a non-empty
\* trigger and the reply carries a non-empty patch, commit starts another
\* round and does not send close.
C28_CommitQuiescence ==
    /\ \A c \in 1..MaxCtx : CommitRuns(c) ~> CommitEnded(c)
    /\ [][NoBoundStep]_vars

C28_Witness ==
    \E c \in Ctxs :
        /\ ctxs[c].ret.op = "commit" /\ ctxs[c].ret.st = "ok" /\ ctxs[c].ret.closeSent
        /\ NumSent(ctxs[c], "execute") = 2
        /\ Len(ctxs[c].ret.val.patch) = 2
        /\ Last(ctxs[c].sent).type = "close"

\* The execute call of a client has ended (resolved or rejected), with as
\* many child transactions open as when it began.
ExecuteEnded(s) ==
    /\ s.ret.op = "execute"
    /\ s.ret.st # "pending"
    /\ s.children = s.ret.childrenAt

\* C30: an execute call that dispatches to a transaction function leaves the
\* frame stack as deep as it was before the call on every exit path: the
\* function returning true, returning false, or rejecting.
C30_ExecuteKeepsDepth ==
    \A c \in Ctxs :
        ExecuteEnded(ctxs[c]) => Len(ctxs[c].nestedContexts) = ctxs[c].ret.framesAt

\* The child opened last can commit: the socket is open, no close and no
\* roll-back has been sent, and the child's frame is on top of the stack, on
\* the frame that was on top when it was opened.
InUse(s) ==
    /\ isOpen(s)
    /\ ~HasSent(s, "close") /\ ~HasSent(s, "roll-back")
    /\ s.openedAt # <<>>
    /\ Last(s.openedAt).depth >= 1
    /\ Len(s.nestedContexts) = Last(s.openedAt).depth + 1

\* The operations replied since the child opened last was opened.
ChildReplied(s) == SubSeq(s.replied, Last(s.openedAt).replied + 1, Len(s.replied))

\* One step of the commit of a child by its holder: the operations replied
\* to the child's edits are appended, in wire order, to the aggregate of the
\* frame that was on top when the child was opened, each once.
ChildCommitStep ==
    \A c \in Ctxs :
        LET s == ctxs[c]
            s2 == ctxs'[c]
            n == Len(s.nestedContexts)
        IN ChildCommit(c) /\ s.chain = <<>> /\ InUse(s) =>
            /\ Len(s2.nestedContexts) = n - 1
            /\ s2.nestedContexts[n - 1].patch = s.nestedContexts[n - 1].patch \o ChildReplied(s)
            /\ \A op \in Range(ChildReplied(s)) :
                   Occurrences(s2.nestedContexts[n - 1].patch, op) = 1
            /\ \A i \in 1..(n - 2) : s2.nestedContexts[i] = s.nestedContexts[i]

\* The root commit that succeeded after every child was committed returns
\* each operation of the children once.
RootCommitHasChildOps ==
    \A c \in Ctxs :
        LET s == ctxs[c] IN
        /\ CommitSucceeded(s)
        /\ ~HasSent(s, "roll-back")
        /\ NumSent(s, "close") = 1
        /\ s.ret.framesAt = 1 /\ s.children = 0 /\ s.openedAt = <<>>
        => \A op \in s.childOps : Occurrences(s.ret.val.patch, op) = 1

TriggerFalseStep ==
    \A c \in Ctxs :
        LET s == ctxs[c]
            s2 == ctxs'[c]
            n == Len(s.nestedContexts)
        IN FnReturn(c, FALSE) /\ Len(s.chain) = 3 /\ InTriggerRound(s)
           /\ IsTriggerFn(s) /\ isOpen(s) /\ n >= 1
           => /\ NumSent(s2, "roll-back") = NumSent(s, "roll-back")
              /\ s2.ret.st # "err"
              /\ Len(s2.nestedContexts) = n - 1
              /\ IF s.nestedContexts[n].patch # <<>>
                 THEN /\ AtPc(s2, "commit", "getTriggers")
                      /\ s2.chain[1].upd.patch =
                             s.chain[1].upd.patch \o s.nestedContexts[n].patch
                      /\ s2.sent = s.sent
                 ELSE /\ s2.ret.st = "ok" /\ s2.ret.closeSent
                      /\ s2.sent = Append(s.sent, message("close", NoBody))
                      /\ s2.ret.val.patch = s.chain[1].upd.patch

\* C31: the boolean a trigger transaction function returns does not influence
\* commit: when it returns false without rejecting, its frame's aggregate is
\* still merged into the commit result, no roll-back is sent, and commit goes
\* on to send close.
C31_TriggerReturnIgnored == [][TriggerFalseStep]_vars

C31_Witness ==
    \E c \in Ctxs :
        LET s == ctxs[c] IN
        /\ s.ret.op = "commit" /\ s.ret.st = "ok" /\ s.ret.closeSent
        /\ s.ret.triggerFalse
        /\ ~HasSent(s, "roll-back")
        /\ Len(s.ret.val.patch) = 2
        /\ s.ret.val.patch = s.replied

\* A reply with success = false is delivered: no roll-back is sent and the
\* call that awaited it does not reject.
FailedReplyStep ==
    \A c \in Ctxs, n \in 0..MaxReplyOps :
        LET s == ctxs[c]
            s2 == ctxs'[c]
        IN Reply(c, FALSE, n) /\ s.nestedContexts # <<>>
           => /\ NumSent(s2, "roll-back") = NumSent(s, "roll-back")
              /\ ~(s2.chain = <<>> /\ s2.ret.st = "err")
              /\ s2.replied = s.replied \o ReplyResult(FALSE, n).patch

\* The step of context c rejects nothing: a call of commit, a reply, a
\* transaction function returning, or the registry answering.
NonRejectingStep(c) ==
    \/ Commit(c)
    \/ \E ok \in BOOLEAN, n \in 0..MaxReplyOps : Reply(c, ok, n)
    \/ \E b \in BOOLEAN : FnReturn(c, b)
    \/ \E t \in TriggerResults : t.kind # "reject" /\ getTriggers(c, t)

\* A commit that ends in a step that rejects nothing, the socket open and a
\* frame on the stack, has sent close last, sent no roll-back and resolved
\* with the aggregate, whatever the aggregate's success flag.
CommitEndStep ==
    \A c \in Ctxs :
        LET s == ctxs[c]
            s2 == ctxs'[c]
        IN /\ NonRejectingStep(c)
           /\ s2.chain = <<>> /\ s2.ret.op = "commit"
           /\ isOpen(s) /\ s.nestedContexts # <<>>
           => /\ s2.ret.st = "ok"
              /\ s2.sent = Append(s.sent, message("close", NoBody))
              /\ IF s.chain = <<>>
                 THEN s2.ret.val = Last(s.nestedContexts)
                 ELSE IF Len(s.chain) = 1
                 THEN s2.ret.val = s.chain[1].upd
                 ELSE SubSeq(s2.ret.val.patch, 1, Len(s.chain[1].upd.patch))
                         = s.chain[1].upd.patch

----------------------------------------------------------------------------
(* The merge on its own: two results merged one after the other. *)

MergeOps == {1, 2}

SeqsUpTo(S, n) == UNION {[1..k -> S] : k \in 0..n}

MergeResults ==
    {MkResult(s, TRUE, p, m) : s \in BOOLEAN, p \in SeqsUpTo(MergeOps, MaxLen), m \in {0, 7}}
    \cup {MkResult(s, FALSE, <<>>, 0) : s \in BOOLEAN}

MergeAggregates ==
    {NewAggregate, MkResult(TRUE, TRUE, <<2>>, 0), MkResult(FALSE, TRUE, <<1>>, 5),
     MkResult(TRUE, FALSE, <<>>, 0)}

MergeInit ==
    /\ mA0 \in MergeAggregates
    /\ mR1 \in MergeResults
    /\ mR2 \in MergeResults
    /\ mAgg = mA0
    /\ mStage = 0

MergeFirst ==
    /\ mStage = 0
    /\ mAgg' = mergeModelUpdateResult(mAgg, mR1)
    /\ mStage' = 1
    /\ UNCHANGED <<mA0, mR1, mR2, mainVars, gatewayVars>>

MergeSecond ==
    /\ mStage = 1
    /\ mAgg' = mergeModelUpdateResult(mAgg, mR2)
    /\ mStage' = 2
    /\ UNCHANGED <<mA0, mR1, mR2, mainVars, gatewayVars>>

InitMerge == MainIdle /\ MergeInit /\ GatewayIdle

NextMerge == MergeFirst \/ MergeSecond

SpecMerge == InitMerge /\ [][NextMerge]_vars

\* C6: merging r1 then r2 into an aggregate appends r1.patch and then
\* r2.patch to the aggregate's patch: ordered concatenation, nothing dropped,
\* duplicated or reordered (a fresh aggregate ends with r1.patch ++ r2.patch).
C6_PatchIsConcatenation ==
    mStage = 2 => mAgg.patch = (mA0.patch \o mR1.patch) \o mR2.patch

C6_Witness ==
    /\ mStage = 2
    /\ mA0 = NewAggregate
    /\ Len(mR1.patch) > 0
    /\ Len(mR2.patch) > 0
    /\ mR1.patch # mR2.patch
    /\ mAgg.patch = mR1.patch \o mR2.patch

\* C24: when a result r is merged into an aggregate A, A.patchModel becomes
\* r.patchModel exactly when r.patchModel is non-null and the running success
\* of A after the merge is true; otherwise A.patchModel keeps its value.
C24_PatchModelRule ==
    mStage = 1 =>
        mAgg.patchModel = IF mR1.patchModel # 0 /\ mAgg.success
                          THEN mR1.patchModel ELSE mA0.patchModel

----------------------------------------------------------------------------
(* The gateway: ModelServer (server.ts), routes and backstop *)

\* A path is the sequence of its segments: "/api/v2/models" is
\* <<"api", "v2", "models">>, "/" is <<"">>, "" is <<>>; a trailing slash is
\* an empty last segment, and string concatenation is \o.
STANDARD_ROUTES ==
    {<<"models">>, <<"modelelement">>, <<"modeluris">>, <<"server", "ping">>,
     <<"server", "configure">>, <<"subscribe">>, <<"close">>, <<"save">>, <<"saveall">>,
     <<"undo">>, <<"redo">>, <<"transaction">>, <<"validation">>,
     <<"validation", "constraints">>, <<"typeschema">>, <<"uischema">>}

\* The segments that match v[0-9.]+, among the segments the model uses.
IsVersion(seg) == seg \in {"v2"}

\* handledRoute.replace(/\/+$/, '')
RECURSIVE StripTrailingSlashes(_)
StripTrailingSlashes(path) ==
    IF path # <<>> /\ Last(path) = "" THEN StripTrailingSlashes(Front(path)) ELSE path

\* route.match(/^\/api\/v[0-9.]+(\/.*)/) and STANDARD_ROUTES.has(match[1])
isModelServerRoute(route) ==
    /\ Len(route) >= 3
    /\ route[1] = "api"
    /\ IsVersion(route[2])
    /\ SubSeq(route, 3, Len(route)) \in STANDARD_ROUTES

\* The routes plug-ins mount their routers at.
RouterRoutes == {<<"api", "v2">>, <<"custom">>}

\* RoutingOptions.forwardToUpstream (options or the field may be missing).
ForwardOptions == {"undefined", "true", "false"}

\* The layers of a router's stack: a route handler with its path, or a
\* middleware (no route).
Middleware == [route |-> FALSE, path |-> <<>>]

RouteLayer(path) == [route |-> TRUE, path |-> path]

LayerPaths == {<<"">>, <<"models">>}

\* The paths of the requests that reach the catch-all handler.
RequestPaths ==
    {<<"api", "v2", "models">>, <<"api", "v2">>, <<"custom", "models">>, <<"custom", "">>}

\* Layers in the stacks of all routers, for the bound.
RECURSIVE Layers(_)
Layers(rs) == IF rs = <<>> THEN 0 ELSE Len(Last(rs).stack) + Layers(Front(rs))

\* layer?.route?.path ?? ''
LayerPath(layer) == IF layer.route THEN layer.path ELSE <<>>

\* The handledRoutes of one router: r.route + path of each layer, stripped.
HandledRoutes(r) ==
    {StripTrailingSlashes(r.route \o LayerPath(r.stack[i])) : i \in 1..Len(r.stack)}

InstallRouterUnfiltered(paths, r) ==
    IF r.forwardToUpstream = "true" THEN paths ELSE paths \cup HandledRoutes(r)

\* routes.install, one router: what it adds to the backstop paths.
InstallRouter(paths, r) ==
    IF r.forwardToUpstream = "true" THEN paths
    ELSE LET explicitlyBackstopped == r.forwardToUpstream # "undefined" IN
         paths \cup {h \in HandledRoutes(r) : explicitlyBackstopped \/ ~isModelServerRoute(h)}

RECURSIVE InstallRouters(_, _)
InstallRouters(paths, rs) ==
    IF rs = <<>> THEN paths
    ELSE InstallRouters(InstallRouter(paths, rs[1]), SubSeq(rs, 2, Len(rs)))

shouldBackstop(path) == path \in backstopPaths

\* routes.factory(route, options), with or without a before-middleware.
factory(route, forwardToUpstream, mw) ==
    /\ ~installed
    /\ Len(routers) < MaxRouters
    /\ mw => Layers(routers) < MaxLayers
    /\ routers' = Append(routers, [route |-> route, forwardToUpstream |-> forwardToUpstream,
                                   stack |-> IF mw THEN <<Middleware>> ELSE <<>>])
    /\ UNCHANGED <<installed, backstopPaths, lastRequest, bridge, mainVars, mergeVars>>

\* A route provider registers a handler on its router: router.get(path, ...).
AddRoute(i, path) ==
    /\ ~installed
    /\ Layers(routers) < MaxLayers
    /\ routers' = [routers EXCEPT ![i].stack = Append(@, RouteLayer(path))]
    /\ UNCHANGED <<installed, backstopPaths, lastRequest, bridge, mainVars, mergeVars>>

\* routes.install(), then the catch-all handlers.
install ==
    /\ ~installed
    /\ backstopPaths' = InstallRouters(backstopPaths, routers)
    /\ installed' = TRUE
    /\ UNCHANGED <<routers, lastRequest, bridge, mainVars, mergeVars>>

forwardUnlessHandled(path, upgrade) ==
    /\ installed
    /\ lastRequest' = [path |-> path, upgrade |-> upgrade,
                       fate |-> IF upgrade THEN "next"
                                ELSE IF \E i \in 1..Len(routers) : path \in HandledRoutes(routers[i])
                                     THEN "backstopped"
                                ELSE "forwarded"]
    /\ UNCHANGED <<routers, installed, backstopPaths, bridge, mainVars, mergeVars>>

\* forward(upstream): the catch-all handler gets a request.
forward(path, upgrade) ==
    /\ installed
    /\ lastRequest' = [path |-> path, upgrade |-> upgrade,
                       fate |-> IF upgrade THEN "next"
                                ELSE IF shouldBackstop(path) THEN "backstopped"
                                ELSE "forwarded"]
    /\ UNCHANGED <<routers, installed, backstopPaths, bridge, mainVars, mergeVars>>

NextRoutes ==
    \/ \E route \in RouterRoutes, f \in ForwardOptions, mw \in BOOLEAN : factory(route, f, mw)
    \/ \E i \in 1..Len(routers), path \in LayerPaths : AddRoute(i, path)
    \/ install
    \/ \E path \in RequestPaths, upgrade \in BOOLEAN : forward(path, upgrade)

SpecRoutes == Init /\ [][NextRoutes]_vars

\* Router i handles the path: it is one of the router's handledRoutes.
Handles(i, path) == path \in HandledRoutes(routers[i])

\* The catch-all handler has had a plain HTTP request (no upgrade).
HttpRequest == lastRequest.fate # "none" /\ ~lastRequest.upgrade

\* The path is handled by a router with forwardToUpstream false, or by one
\* that left it unset while the path is not a standard route.
HandledLocally(path) ==
    \E i \in 1..Len(routers) :
        /\ Handles(i, path)
        /\ \/ routers[i].forwardToUpstream = "false"
           \/ routers[i].forwardToUpstream = "undefined" /\ ~isModelServerRoute(path)

\* The path is a standard route handled by a router that left forwardToUpstream unset.
StandardByDefault(path) ==
    /\ isModelServerRoute(path)
    /\ \E i \in 1..Len(routers) :
           Handles(i, path) /\ routers[i].forwardToUpstream = "undefined"

DeniedExplicitly(path) ==
    \E i \in 1..Len(routers) : Handles(i, path) /\ routers[i].forwardToUpstream = "false"

KnownPaths ==
    backstopPaths \cup RequestPaths
        \cup UNION {HandledRoutes(routers[i]) : i \in 1..Len(routers)}

\* C22: after installation a path is in the backstop set exactly when some
\* router whose forwardToUpstream is not true handles it and either that router
\* set forwardToUpstream to false or the path is not a standard route under
\* /api/v<version>; the routes of a router with forwardToUpstream true are not added.
C22_BackstopSet ==
    installed =>
        \A path \in KnownPaths :
            path \in backstopPaths <=>
                \E i \in 1..Len(routers) :
                    /\ Handles(i, path)
                    /\ routers[i].forwardToUpstream # "true"
                    /\ \/ routers[i].forwardToUpstream = "false"
                       \/ ~isModelServerRoute(path)

C22_Witness ==
    /\ installed
    /\ \E i, j \in 1..Len(routers), path \in backstopPaths :
           /\ routers[i].forwardToUpstream = "undefined"
           /\ Handles(i, path)
           /\ routers[j].forwardToUpstream = "undefined"
           /\ \E std \in HandledRoutes(routers[j]) :
                  isModelServerRoute(std) /\ std \notin backstopPaths

----------------------------------------------------------------------------
(* The gateway: the WebSocket bridge (forwardWS) *)

\* A frame as the 'message' event delivers it: (data: RawData, isBinary).
Frames == [isBinary : BOOLEAN, data : {"a"}]

\* sock.send(arg): the kind of the frame follows the type of the argument
\* (a string goes as text, a Buffer as binary).
SentFrame(arg) == [isBinary |-> arg.type # "string", data |-> arg.data]

\* rawDataHelper(sock)(data, isBinary): the argument handed to sock.send.
rawDataHelper(frame) ==
    IF frame.isBinary THEN [type |-> "Buffer", data |-> frame.data]
    ELSE [type |-> "string", data |-> frame.data]

\* sock.send on a socket in the given state: only an open socket takes the
\* frame (while CONNECTING send throws, after close the frame is dropped).
send(readyState, sent, arg) ==
    IF readyState = "OPEN" THEN Append(sent, SentFrame(arg)) ELSE sent

\* handleClose(side, logger, other), handleError(side, logger, other): the
\* other socket is closed, unless it is closed already.
closeOther(readyState) == IF readyState \in {"NONE", "CLOSED"} THEN readyState ELSE "CLOSED"

\* forwardWS: an upgrade request reaches app.ws('*'); the downstream socket is
\* open, the upstream socket has just been created.
forwardWS ==
    /\ installed
    /\ bridge.downstream = "NONE"
    /\ bridge' = [NoBridge EXCEPT !.downstream = "OPEN", !.upstream = "CONNECTING"]
    /\ UNCHANGED <<routers, installed, backstopPaths, lastRequest, mainVars, mergeVars>>

\* The upstream handshake completes.
UpstreamOpen ==
    /\ bridge.upstream = "CONNECTING"
    /\ bridge' = [bridge EXCEPT !.upstream = "OPEN"]
    /\ UNCHANGED <<routers, installed, backstopPaths, lastRequest, mainVars, mergeVars>>

\* downstream.on('message', rawDataHelper(upstream))
DownstreamMessage(frame) ==
    /\ bridge.downstream = "OPEN"
    /\ Len(bridge.fromDown) < MaxFrames
    /\ bridge' = [bridge EXCEPT !.fromDown = Append(@, frame),
                                !.toUp = send(bridge.upstream, @, rawDataHelper(frame))]
    /\ UNCHANGED <<routers, installed, backstopPaths, lastRequest, mainVars, mergeVars>>

\* upstream.on('message', rawDataHelper(downstream))
UpstreamMessage(frame) ==
    /\ bridge.upstream = "OPEN"
    /\ Len(bridge.fromUp) < MaxFrames
    /\ bridge' = [bridge EXCEPT !.fromUp = Append(@, frame),
                                !.toDown = send(bridge.downstream, @, rawDataHelper(frame))]
    /\ UNCHANGED <<routers, installed, backstopPaths, lastRequest, mainVars, mergeVars>>

\* downstream.on('close' / 'error', ...): the downstream socket has closed.
DownstreamClose ==
    /\ bridge.downstream = "OPEN"
    /\ bridge' = [bridge EXCEPT !.downstream = "CLOSED", !.upstream = closeOther(@),
                                !.closedFirst = "downstream"]
    /\ UNCHANGED <<routers, installed, backstopPaths, lastRequest, mainVars, mergeVars>>

\* upstream.on('close' / 'error', ...): the upstream socket has closed, or its
\* handshake has failed.
UpstreamClose ==
    /\ bridge.upstream \in {"CONNECTING", "OPEN"}
    /\ bridge' = [bridge EXCEPT !.upstream = "CLOSED", !.downstream = closeOther(@),
                                !.closedFirst = "upstream"]
    /\ UNCHANGED <<routers, installed, backstopPaths, lastRequest, mainVars, mergeVars>>

NextBridge ==
    \/ install
    \/ forwardWS
    \/ UpstreamOpen
    \/ \E frame \in Frames : DownstreamMessage(frame)
    \/ \E frame \in Frames : UpstreamMessage(frame)
    \/ DownstreamClose
    \/ UpstreamClose

SpecBridge == Init /\ [][NextBridge]_vars

\* C23: on a bridged WebSocket every frame received on one side has been sent
\* on the other side, in the same order and with the same kind, in both
\* directions, and when one side has closed the other side is closed as well.
C23_BridgeFidelity ==
    bridge.downstream # "NONE" =>
        /\ bridge.toUp = bridge.fromDown
        /\ bridge.toDown = bridge.fromUp
        /\ bridge.downstream = "CLOSED" <=> bridge.upstream = "CLOSED"

====
